---- MODULE Spec2Model ----
(***************************************************************************)
(* A model of the recursive-descent query parser of parser.go.            *)
(*                                                                         *)
(* The parser is modelled at the level of tokens.  The raw input is a      *)
(* sequence of lexical items; the buffered scanner (scan, unscan,          *)
(* ScanRegex, peekRune) turns it into tokens.  Every parse function of     *)
(* parser.go is an operator that takes the scanner state and returns the   *)
(* new scanner state together with a value and an error, exactly as the    *)
(* Go function returns (value, error) and leaves the scanner advanced.      *)
(* The loops of the three public entry points ParseQuery, ParseStatement    *)
(* and ParseExpr are the actions of the state machine.                      *)
(***************************************************************************)
EXTENDS Integers, Sequences, FiniteSets, TLC

VARIABLES
    entry,       \* the public entry point that was called
    input,       \* the raw input handed to NewParser
    params,      \* Parser.params, as set by SetParams
    s,           \* Parser.s, the buffered scanner
    pc,          \* position of the entry point: "start", "loop" (ParseExpr), "done"
    statements,  \* ParseQuery: the local statements
    semi,        \* ParseQuery: the local semi
    qlog,        \* ParseQuery: what the loop has read so far, ";" and "stmt"
    root,        \* ParseExpr: root.RHS of the dummy root node
    ins,         \* ParseExpr: the last insertion made by the loop
    identsRead,  \* parseSource, parseVarRef: what parseSegmentedIdents returned
    result,      \* the value returned by the entry point
    err          \* the error returned by the entry point

vars ==
    <<entry, input, params, s, pc, statements, semi, qlog, root, ins, identsRead, result, err>>

----------------------------------------------------------------------------
(* Bounds of the model.                                                    *)

MaxOps == 3

MaxSegs == 5

MaxPieces == 4

----------------------------------------------------------------------------
(* Generic helpers.                                                        *)

Nil == [type |-> "nil"]

IsNil(x) == x.type = "nil"

Max(a, b) == IF a >= b THEN a ELSE b

Last(sq) == sq[Len(sq)]

\* Body on the value v, which is evaluated once.
Bind(v, Body(_)) == Body(v)

RECURSIVE Flatten(_)
Flatten(sqs) == IF sqs = <<>> THEN <<>> ELSE Head(sqs) \o Flatten(Tail(sqs))

\* Go values tagged with their Go type.
GoString(x) == [string |-> x]

GoInt64(x) == [int64 |-> x]

GoFloat64(x) == [float64 |-> x]

GoBool(x) == [bool |-> x]

GoRegexp(x) == [regexp |-> x]

----------------------------------------------------------------------------
(* Tokens and their classification (token.go).                             *)

Tok(k, l) == [tok |-> k, lit |-> l]

OperatorTokens ==
    {"ADD", "SUB", "MUL", "DIV", "AND", "OR",
     "EQ", "NEQ", "EQREGEX", "NEQREGEX", "LT", "LTE", "GT", "GTE"}

isOperator(tok) == tok \in OperatorTokens

Precedence(tok) ==
    CASE tok = "OR" -> 1
      [] tok = "AND" -> 2
      [] tok \in {"EQ", "NEQ", "EQREGEX", "NEQREGEX", "LT", "LTE", "GT", "GTE"} -> 3
      [] tok \in {"ADD", "SUB"} -> 4
      [] tok \in {"MUL", "DIV"} -> 5
      [] OTHER -> 0

IsRegexOp(tok) == tok \in {"EQREGEX", "NEQREGEX"}

\* Token.String(): the text of a token kind.
TokString(tok) ==
    CASE tok = "ADD" -> "+"
      [] tok = "SUB" -> "-"
      [] tok = "MUL" -> "*"
      [] tok = "DIV" -> "/"
      [] tok = "EQ" -> "="
      [] tok = "NEQ" -> "!="
      [] tok = "EQREGEX" -> "=~"
      [] tok = "NEQREGEX" -> "!~"
      [] tok = "LT" -> "<"
      [] tok = "LTE" -> "<="
      [] tok = "GT" -> ">"
      [] tok = "GTE" -> ">="
      [] tok = "LPAREN" -> "("
      [] tok = "RPAREN" -> ")"
      [] tok = "COMMA" -> ","
      [] tok = "SEMICOLON" -> ";"
      [] tok = "DOT" -> "."
      [] tok = "COLON" -> ":"
      [] tok = "DOUBLECOLON" -> "::"
      [] OTHER -> tok

\* tokstr: the literal when there is one, the token's text otherwise.
tokstr(tok, lit) == IF lit # "" THEN lit ELSE TokString(tok)

Keywords == {"select", "from", "where", "as", "and", "or", "true", "false"}

\* Lookup: the token kind of an identifier string.
Lookup(ident) == IF ident \in Keywords THEN "KEYWORD" ELSE "IDENT"

\* The identifiers of the model whose characters are not all identifier
\* characters (isIdentFirstChar, isIdentChar).
NonBareIdents == {"my db", "1x"}

\* strings.ToLower on the identifiers of the model.
ToLower(l) ==
    CASE l = "MEAN" -> "mean"
      [] l = "FLOAT" -> "float"
      [] l = "Integer" -> "integer"
      [] OTHER -> l

\* strings.TrimPrefix(lit, "$") on the bound parameters of the model.
TrimDollar(l) ==
    CASE l = "$" -> ""
      [] l = "$host" -> "host"
      [] l = "$n" -> "n"
      [] OTHER -> l

\* regexp.Compile succeeds on every pattern of the model but "[".
Compiles(lit) == lit # "["

\* strconv.ParseInt / ParseFloat on the literals of the model; a literal
\* outside the tables is out of range.
IntLits == {"1", "10", "20"}

ParseIntVal(lit) ==
    CASE lit = "1" -> 1
      [] lit = "10" -> 10
      [] lit = "20" -> 20
      [] OTHER -> 0

NumLits == {"1.5", "2.0"}

ParseFloatVal(lit) ==
    CASE lit = "1.5" -> [num |-> 15, den |-> 10]
      [] lit = "2.0" -> [num |-> 2, den |-> 1]
      [] OTHER -> [num |-> 0, den |-> 1]

----------------------------------------------------------------------------
(* Positions and errors (ParseError, newParseError, Error).                *)

Pos(line, char) == [Line |-> line, Char |-> char]

ZeroPos == Pos(0, 0)

newParseError(found, expected, pos) ==
    [type |-> "ParseError", Message |-> <<>>, Found |-> found,
     Expected |-> expected, Pos |-> pos]

\* &ParseError{Message: msg, Pos: pos}; msg is the sequence of the pieces
\* that Sprintf joins.
MessageError(msg, pos) ==
    [type |-> "ParseError", Message |-> msg, Found |-> "",
     Expected |-> <<>>, Pos |-> pos]

\* errors.New / fmt.Errorf: an error that is only a text.
PlainError(text) == [type |-> "errorString", text |-> text]

ItoaTab ==
    <<"0", "1", "2", "3", "4", "5", "6", "7", "8", "9",
      "10", "11", "12", "13", "14", "15", "16", "17", "18", "19",
      "20", "21", "22", "23", "24", "25", "26", "27", "28", "29",
      "30", "31", "32", "33", "34", "35", "36", "37", "38", "39",
      "40", "41", "42", "43", "44", "45", "46", "47", "48", "49",
      "50", "51", "52", "53", "54", "55", "56", "57", "58", "59",
      "60", "61", "62", "63", "64", "65", "66", "67", "68", "69">>

\* %d of Sprintf.
Itoa(n) == ItoaTab[n + 1]

RECURSIVE JoinWith(_, _)
JoinWith(strs, sep) ==
    IF strs = <<>> THEN <<>>
    ELSE IF Len(strs) = 1 THEN <<strs[1]>>
    ELSE <<strs[1], sep>> \o JoinWith(Tail(strs), sep)

\* ParseError.Error(): the rendered text, as the sequence of its pieces.
ParseErrorText(e) ==
    IF e.Message # <<>>
    THEN e.Message \o <<" at line ", Itoa(e.Pos.Line + 1), ", char ", Itoa(e.Pos.Char + 1)>>
    ELSE <<"found ", e.Found, ", expected ">> \o JoinWith(e.Expected, ", ")
           \o <<" at line ", Itoa(e.Pos.Line + 1), ", char ", Itoa(e.Pos.Char + 1)>>

\* The Error() of any error the parser returns.
ErrorText(e) == IF e.type = "ParseError" THEN ParseErrorText(e) ELSE e.text

----------------------------------------------------------------------------
(* Quoting (QuoteIdent, IdentNeedsQuotes).                                 *)

IdentNeedsQuotes(ident) == Lookup(ident) # "IDENT" \/ ident \in NonBareIdents

RECURSIVE QuoteIdentFrom(_, _)
QuoteIdentFrom(segments, i) ==
    IF i > Len(segments) THEN <<>>
    ELSE LET segment == segments[i]
             needQuote == IdentNeedsQuotes(segment)
                            \/ (i < Len(segments) /\ segment # "")
             body == IF needQuote THEN <<"\"", segment, "\"">> ELSE <<segment>>
             dot == IF i < Len(segments) THEN <<".">> ELSE <<>>
         IN  body \o dot \o QuoteIdentFrom(segments, i + 1)

QuoteIdent(segments) == QuoteIdentFrom(segments, 1)

----------------------------------------------------------------------------
(* The scanner (scanner.go): Scanner over the raw input, and bufScanner,   *)
(* which buffers the last tokens so that they can be unscanned.            *)
(*                                                                         *)
(* A raw item is a token as Scanner.Scan returns it, or the text of a      *)
(* regex literal: RAWREGEX (/lit/), RAWBADESC (a bad escape inside) and    *)
(* RAWBADREGEX (no closing slash).  Scanner.ScanRegex reads such an item   *)
(* whole; Scanner.Scan reads its opening slash as DIV and leaves the rest. *)

BufSize == 3

RawRegexKinds == {"RAWREGEX", "RAWBADESC", "RAWBADREGEX"}

RegexRemainder(item) ==
    CASE item.tok = "RAWREGEX" ->
           <<Tok(IF Compiles(item.lit) THEN "IDENT" ELSE "ILLEGAL", item.lit), Tok("DIV", "")>>
      [] item.tok = "RAWBADESC" -> <<Tok("ILLEGAL", item.lit), Tok("DIV", "")>>
      [] OTHER -> <<Tok("IDENT", item.lit)>>

\* The first rune of a raw item.
FirstRune(item) ==
    CASE item.tok = "WS" -> " "
      [] item.tok = "DIV" \/ item.tok \in RawRegexKinds -> "/"
      [] item.tok = "DOT" -> "."
      [] item.tok \in {"COLON", "DOUBLECOLON"} -> ":"
      [] OTHER -> "x"

isWhitespace(ch) == ch = " "

newBufScanner(raw) == [rest |-> raw, buf |-> <<>>, n |-> 0, maxn |-> 0, c |-> 0]

WithPos(t, c) == [tok |-> t.tok, lit |-> t.lit, pos |-> Pos(0, c)]

\* Scanner.Scan: the next token of the raw input.
ScannerScan(sc) ==
    IF sc.rest = <<>>
    THEN [s |-> sc, t |-> WithPos(Tok("EOF", ""), sc.c)]
    ELSE LET item == Head(sc.rest) IN
         IF item.tok \in RawRegexKinds
         THEN [s |-> [sc EXCEPT !.rest = RegexRemainder(item) \o Tail(sc.rest),
                                !.c = sc.c + 1],
               t |-> WithPos(Tok("DIV", ""), sc.c)]
         ELSE [s |-> [sc EXCEPT !.rest = Tail(sc.rest), !.c = sc.c + 1],
               t |-> WithPos(item, sc.c)]

\* The index of the first DIV of a raw sequence, 0 when there is none.
RECURSIVE FirstDiv(_, _)
FirstDiv(raw, i) ==
    IF i > Len(raw) THEN 0
    ELSE IF raw[i].tok = "DIV" THEN i
    ELSE FirstDiv(raw, i + 1)

\* Scanner.ScanRegex: the text from a slash to the closing slash.
ScannerScanRegex(sc) ==
    IF sc.rest = <<>>
    THEN [s |-> sc, t |-> WithPos(Tok("BADREGEX", ""), sc.c)]
    ELSE LET item == Head(sc.rest)
             after == [sc EXCEPT !.rest = Tail(sc.rest), !.c = sc.c + 1]
             close == FirstDiv(Tail(sc.rest), 1)
         IN  CASE item.tok = "RAWREGEX" ->
                    [s |-> after, t |-> WithPos(Tok("REGEX", item.lit), sc.c)]
               [] item.tok = "RAWBADESC" ->
                    [s |-> after, t |-> WithPos(Tok("BADESCAPE", ""), sc.c + 1)]
               [] item.tok = "RAWBADREGEX" ->
                    [s |-> after, t |-> WithPos(Tok("BADREGEX", ""), sc.c)]
               [] item.tok = "DIV" /\ close > 0 ->
                    [s |-> [sc EXCEPT !.rest = SubSeq(sc.rest, close + 2, Len(sc.rest)),
                                      !.c = sc.c + close + 1],
                     t |-> WithPos(Tok("REGEX", "raw"), sc.c)]
               [] OTHER ->
                    [s |-> [sc EXCEPT !.rest = <<>>, !.c = sc.c + Len(sc.rest)],
                     t |-> WithPos(Tok("BADREGEX", ""), sc.c)]

\* bufScanner keeps the last BufSize tokens.
PushBuf(buf, t) ==
    IF Len(buf) < BufSize THEN Append(buf, t) ELSE Append(Tail(buf), t)

\* bufScanner.scanFunc: an unscanned token first, a new one otherwise.
scanFunc(sc, regex) ==
    IF sc.n > 0
    THEN [s |-> [sc EXCEPT !.n = sc.n - 1], t |-> sc.buf[Len(sc.buf) - sc.n + 1]]
    ELSE Bind(IF regex THEN ScannerScanRegex(sc) ELSE ScannerScan(sc),
              LAMBDA r : [s |-> [r.s EXCEPT !.buf = PushBuf(r.s.buf, r.t)], t |-> r.t])

\* Parser.scan -> bufScanner.Scan
scan(sc) == scanFunc(sc, FALSE)

\* bufScanner.ScanRegex
ScanRegex(sc) == scanFunc(sc, TRUE)

\* Parser.unscan -> bufScanner.Unscan
unscan(sc) == [sc EXCEPT !.n = sc.n + 1, !.maxn = Max(sc.maxn, sc.n + 1)]

scanIgnoreWhitespace(sc) ==
    Bind(scan(sc), LAMBDA r : IF r.t.tok = "WS" THEN scan(r.s) ELSE r)

consumeWhitespace(sc) ==
    Bind(scan(sc), LAMBDA r : IF r.t.tok # "WS" THEN unscan(r.s) ELSE r.s)

\* peekRune reads the underlying reader, past every token the scanner holds.
peekRune(sc) == IF sc.rest = <<>> THEN "eof" ELSE FirstRune(Head(sc.rest))

----------------------------------------------------------------------------
(* Results of the parse functions: the scanner after the call, the value   *)
(* and the error returned.                                                 *)

R(sc, v, e) == [s |-> sc, v |-> v, err |-> e]

Ok(r) == IsNil(r.err)

Fail(sc, e) == R(sc, Nil, e)

\* found/expected error on the token of the scan result r.
Unexpected(r, expected) ==
    Fail(r.s, newParseError(tokstr(r.t.tok, r.t.lit), expected, r.t.pos))

----------------------------------------------------------------------------
(* Identifiers.                                                            *)

parseIdent(sc) ==
    Bind(scanIgnoreWhitespace(sc), LAMBDA r :
        IF r.t.tok # "IDENT" THEN Unexpected(r, <<"identifier">>)
        ELSE R(r.s, r.t.lit, Nil))

\* The loop of parseSegmentedIdents.
RECURSIVE SegmentLoop(_, _)
SegmentLoop(sc, idents) ==
    Bind(scan(sc), LAMBDA r :
        IF r.t.tok # "DOT" THEN R(unscan(r.s), idents, Nil)
        ELSE Bind(peekRune(r.s), LAMBDA ch :
            IF ch = "/" THEN R(r.s, idents, Nil)
            ELSE IF ch = ":" THEN R(r.s, idents, Nil)
            ELSE IF ch = "." THEN SegmentLoop(r.s, Append(idents, ""))
            ELSE Bind(parseIdent(r.s), LAMBDA q :
                IF ~Ok(q) THEN q ELSE SegmentLoop(q.s, Append(idents, q.v)))))

\* A variant of TooManySegments: the limit is off by one.
FourSegmentsAllowed(idents) == Len(idents) > 4

TooManySegments(idents) == Len(idents) > 3

parseSegmentedIdents(sc) ==
    Bind(parseIdent(sc), LAMBDA first :
        IF ~Ok(first) THEN first
        ELSE Bind(SegmentLoop(first.s, <<first.v>>), LAMBDA r :
            IF ~Ok(r) THEN r
            ELSE IF TooManySegments(r.v)
            THEN Fail(r.s, MessageError(<<"too many segments in ">> \o QuoteIdent(r.v),
                                        ZeroPos))
            ELSE r))

----------------------------------------------------------------------------
(* The nodes of the syntax tree (ast.go).                                  *)

VarRef(val, dtype) == [type |-> "VarRef", Val |-> val, Type |-> dtype]

StringLiteral(v) == [type |-> "StringLiteral", Val |-> GoString(v)]

NumberLiteral(v) == [type |-> "NumberLiteral", Val |-> GoFloat64(v)]

IntegerLiteral(v) == [type |-> "IntegerLiteral", Val |-> GoInt64(v)]

BooleanLiteral(v) == [type |-> "BooleanLiteral", Val |-> GoBool(v)]

RegexLiteral(v) == [type |-> "RegexLiteral", Val |-> GoRegexp(v)]

Call(name, args) == [type |-> "Call", Name |-> name, Args |-> args]

BinaryExpr(lhs, op, rhs) == [type |-> "BinaryExpr", LHS |-> lhs, Op |-> op, RHS |-> rhs]

ParenExpr(e) == [type |-> "ParenExpr", Expr |-> e]

----------------------------------------------------------------------------
(* Expressions.                                                            *)

parseRegex(sc) ==
    Bind(IF isWhitespace(peekRune(sc)) THEN consumeWhitespace(sc) ELSE sc, LAMBDA s1 :
        IF peekRune(s1) # "/" THEN R(s1, Nil, Nil)
        ELSE Bind(ScanRegex(s1), LAMBDA r :
            CASE r.t.tok = "BADESCAPE" ->
                   Fail(r.s, MessageError(<<"bad escape: ", r.t.lit>>, r.t.pos))
              [] r.t.tok = "BADREGEX" ->
                   Fail(r.s, MessageError(<<"bad regex: ", r.t.lit>>, r.t.pos))
              [] r.t.tok \notin {"BADESCAPE", "BADREGEX", "REGEX"} ->
                   Unexpected(r, <<"regex">>)
              [] OTHER ->
                   IF ~Compiles(r.t.lit)
                   THEN Fail(r.s, MessageError(<<"error parsing regexp: ", r.t.lit>>, r.t.pos))
                   ELSE R(r.s, RegexLiteral(r.t.lit), Nil)))

TypeNames == <<"float", "integer", "string", "boolean", "field", "tag">>

DataTypeOf(name) ==
    CASE name = "float" -> "Float"
      [] name = "integer" -> "Integer"
      [] name = "string" -> "String"
      [] name = "boolean" -> "Boolean"
      [] OTHER -> "Unknown"

\* parseVarRef after the segmented identifiers segs.
VarRefRest(segs) ==
    IF ~Ok(segs) THEN segs
    ELSE Bind(scan(segs.s), LAMBDA r :
        IF r.t.tok = "DOUBLECOLON"
        THEN Bind(scan(r.s), LAMBDA t :
                 IF t.t.tok = "IDENT"
                    /\ ToLower(t.t.lit) \in {"float", "integer", "string", "boolean"}
                 THEN R(t.s, VarRef(JoinWith(segs.v, "."), DataTypeOf(ToLower(t.t.lit))),
                        Nil)
                 ELSE Unexpected(t, TypeNames))
        ELSE R(unscan(r.s), VarRef(JoinWith(segs.v, "."), "Unknown"), Nil))

parseVarRef(sc) == VarRefRest(parseSegmentedIdents(sc))

\* A variant of BindValue: an int64 is bound as a number.
BindValueIntAsNumber(v) ==
    CASE DOMAIN v = {"float64"} -> [v |-> NumberLiteral(v.float64), err |-> Nil]
      [] DOMAIN v = {"int64"} -> [v |-> NumberLiteral(v.int64), err |-> Nil]
      [] DOMAIN v = {"string"} -> [v |-> StringLiteral(v.string), err |-> Nil]
      [] DOMAIN v = {"bool"} -> [v |-> BooleanLiteral(v.bool), err |-> Nil]
      [] OTHER ->
           [v |-> Nil,
            err |-> PlainError(<<"unable to bind parameter with type ">> \o
                               <<CHOOSE t \in DOMAIN v : TRUE>>)]

\* The type switch of the BOUNDPARAM case of parseUnaryExpr on the value v.
BindValue(v) ==
    CASE DOMAIN v = {"float64"} -> [v |-> NumberLiteral(v.float64), err |-> Nil]
      [] DOMAIN v = {"int64"} -> [v |-> IntegerLiteral(v.int64), err |-> Nil]
      [] DOMAIN v = {"string"} -> [v |-> StringLiteral(v.string), err |-> Nil]
      [] DOMAIN v = {"bool"} -> [v |-> BooleanLiteral(v.bool), err |-> Nil]
      [] OTHER ->
           [v |-> Nil,
            err |-> PlainError(<<"unable to bind parameter with type ">> \o
                               <<CHOOSE t \in DOMAIN v : TRUE>>)]

\* The BOUNDPARAM case of parseUnaryExpr.
BindParam(lit) ==
    Bind(TrimDollar(lit), LAMBDA k :
        IF k = "" THEN [v |-> Nil, err |-> PlainError(<<"empty bound parameter">>)]
        ELSE IF k \notin DOMAIN params
        THEN [v |-> Nil, err |-> PlainError(<<"missing parameter: ", k>>)]
        ELSE BindValue(params[k]))

\* A variant of InsertHere: the comparison of the precedences is strict.
InsertHereStrict(r, op) ==
    r.type # "BinaryExpr" \/ Precedence(r.Op) > Precedence(op)

\* A variant of InsertHere: the loop never descends.
InsertAtRoot(r, op) == TRUE

\* A variant of InsertHere: the loop descends to the last operand whatever
\* the precedences are.
InsertAtOperand(r, op) == r.type # "BinaryExpr"

\* The test of the insertion loop of ParseExpr on the right child r of the
\* current node: the new node goes here.
InsertHere(r, op) ==
    r.type # "BinaryExpr" \/ Precedence(r.Op) >= Precedence(op)

\* The insertion loop of ParseExpr from the node whose right child is
\* rhsOfNode: the right child of that node after the insertion.
RECURSIVE InsertBelow(_, _, _)
InsertBelow(rhsOfNode, op, rhs) ==
    IF InsertHere(rhsOfNode, op)
    THEN BinaryExpr(rhsOfNode, op, rhs)
    ELSE [rhsOfNode EXCEPT !.RHS = InsertBelow(rhsOfNode.RHS, op, rhs)]

\* The right operand of a regex operator.
RegexOperand(sc) ==
    Bind(parseRegex(consumeWhitespace(sc)), LAMBDA r :
        IF ~Ok(r) THEN r
        ELSE IF IsNil(r.v)
        THEN Unexpected(scanIgnoreWhitespace(r.s), <<"regex">>)
        ELSE r)

RECURSIVE ParseExpr(_), ExprLoop(_, _), ExprStep(_, _), parseUnaryExpr(_)
RECURSIVE parseCall(_, _), CallArgs(_, _)

\* One iteration of the loop of ParseExpr with root.RHS = rt.
ExprStep(sc, rt) ==
    Bind(scanIgnoreWhitespace(sc), LAMBDA o :
        IF ~isOperator(o.t.tok)
        THEN [s |-> unscan(o.s), v |-> rt, err |-> Nil, done |-> TRUE,
              op |-> "", rhs |-> Nil]
        ELSE Bind(IF IsRegexOp(o.t.tok) THEN RegexOperand(o.s) ELSE parseUnaryExpr(o.s),
                  LAMBDA operand :
            IF ~Ok(operand)
            THEN [s |-> operand.s, v |-> Nil, err |-> operand.err, done |-> TRUE,
                  op |-> o.t.tok, rhs |-> Nil]
            ELSE [s |-> operand.s, v |-> InsertBelow(rt, o.t.tok, operand.v),
                  err |-> Nil, done |-> FALSE, op |-> o.t.tok, rhs |-> operand.v]))

ExprLoop(sc, rt) ==
    Bind(ExprStep(sc, rt), LAMBDA st :
        IF st.done THEN R(st.s, st.v, st.err) ELSE ExprLoop(st.s, st.v))

ParseExpr(sc) ==
    Bind(parseUnaryExpr(sc), LAMBDA first :
        IF ~Ok(first) THEN first ELSE ExprLoop(first.s, first.v))

\* parseUnaryExpr after the opening parenthesis.
ParenGroup(e) ==
    IF ~Ok(e) THEN e
    ELSE Bind(scanIgnoreWhitespace(e.s), LAMBDA r2 :
        IF r2.t.tok # "RPAREN" THEN Unexpected(r2, <<")">>)
        ELSE R(r2.s, ParenExpr(e.v), Nil))

\* A variant of UnscanIdent: only the token after the identifier goes back.
UnscanLastOnly(sc) == unscan(sc)

\* parseUnaryExpr, an identifier not followed by a left parenthesis: the last
\* token and the IDENT token are unscanned.
UnscanIdent(sc) == unscan(unscan(sc))

parseUnaryExpr(sc) ==
    Bind(scanIgnoreWhitespace(sc), LAMBDA r1 :
        IF r1.t.tok = "LPAREN" THEN ParenGroup(ParseExpr(r1.s))
        ELSE Bind(scanIgnoreWhitespace(unscan(r1.s)), LAMBDA r :
            CASE r.t.tok = "IDENT" ->
                   Bind(scan(r.s), LAMBDA r0 :
                       IF r0.t.tok = "LPAREN" THEN parseCall(r0.s, r.t.lit)
                       ELSE parseVarRef(UnscanIdent(r0.s)))
              [] r.t.tok = "STRING" -> R(r.s, StringLiteral(r.t.lit), Nil)
              [] r.t.tok = "NUMBER" ->
                   IF r.t.lit \notin NumLits
                   THEN Fail(r.s, MessageError(<<"unable to parse number">>, r.t.pos))
                   ELSE R(r.s, NumberLiteral(ParseFloatVal(r.t.lit)), Nil)
              [] r.t.tok = "INTEGER" ->
                   IF r.t.lit \notin IntLits
                   THEN Fail(r.s, MessageError(<<"unable to parse integer">>, r.t.pos))
                   ELSE R(r.s, IntegerLiteral(ParseIntVal(r.t.lit)), Nil)
              [] r.t.tok \in {"TRUE", "FALSE"} ->
                   R(r.s, BooleanLiteral(r.t.tok = "TRUE"), Nil)
              [] r.t.tok = "REGEX" ->
                   IF ~Compiles(r.t.lit)
                   THEN Fail(r.s, MessageError(<<"error parsing regexp: ", r.t.lit>>, r.t.pos))
                   ELSE R(r.s, RegexLiteral(r.t.lit), Nil)
              [] r.t.tok = "BOUNDPARAM" ->
                   Bind(BindParam(r.t.lit), LAMBDA b : R(r.s, b.v, b.err))
              [] OTHER ->
                   Unexpected(r, <<"identifier", "string", "number", "bool">>)))

\* The loop of parseCall over the arguments after the first.
CallArgs(sc, args) ==
    Bind(scanIgnoreWhitespace(sc), LAMBDA c :
        IF c.t.tok # "COMMA" THEN R(unscan(c.s), args, Nil)
        ELSE Bind(parseRegex(c.s), LAMBDA re :
            IF ~Ok(re) THEN re
            ELSE IF ~IsNil(re.v) THEN CallArgs(re.s, Append(args, re.v))
            ELSE Bind(ParseExpr(re.s), LAMBDA arg :
                IF ~Ok(arg) THEN arg ELSE CallArgs(arg.s, Append(args, arg.v)))))

\* The closing parenthesis of parseCall after the arguments.
CallEnd(name, rest) ==
    IF ~Ok(rest) THEN rest
    ELSE Bind(scan(rest.s), LAMBDA t :
        IF t.t.tok # "RPAREN" THEN Unexpected(t, <<")">>)
        ELSE R(t.s, Call(name, rest.v), Nil))

\* parseCall after the first argument arg.
CallRest(name, arg) ==
    IF ~Ok(arg) THEN arg ELSE CallEnd(name, CallArgs(arg.s, <<arg.v>>))

parseCall(sc, ident) ==
    Bind(parseRegex(sc), LAMBDA re :
        IF ~Ok(re) THEN re
        ELSE IF ~IsNil(re.v) THEN CallEnd(ToLower(ident), CallArgs(re.s, <<re.v>>))
        ELSE Bind(scan(re.s), LAMBDA t :
            IF t.t.tok = "RPAREN" THEN R(t.s, Call(ToLower(ident), <<>>), Nil)
            ELSE CallRest(ToLower(ident), ParseExpr(unscan(t.s)))))

----------------------------------------------------------------------------
(* Walking a tree (Walk and WalkFunc of ast.go).                           *)

\* The children Walk descends into, in its order.
Children(n) ==
    CASE n.type = "BinaryExpr" -> <<n.LHS, n.RHS>>
      [] n.type = "Call" -> n.Args
      [] n.type = "ParenExpr" -> <<n.Expr>>
      [] OTHER -> <<>>

\* The nodes WalkFunc calls its function on, in its order.
RECURSIVE Nodes(_), NodesOfAll(_)
Nodes(n) == <<n>> \o NodesOfAll(Children(n))

NodesOfAll(ns) == IF ns = <<>> THEN <<>> ELSE Nodes(Head(ns)) \o NodesOfAll(Tail(ns))

InvalidFieldOps ==
    {"EQ", "NEQ", "EQREGEX", "NEQREGEX", "LT", "LTE", "GT", "GTE", "AND", "OR"}

\* A variant of validateFieldVisit: only the node it is first called on is
\* checked, the walk does not go into the children.
ValidateTopLevelOnly(c, n) ==
    IF n.type = "BinaryExpr" /\ n.Op \in InvalidFieldOps
    THEN [c |-> [foundInvalid |-> TRUE, badToken |-> n.Op], descend |-> FALSE]
    ELSE [c |-> c, descend |-> FALSE]

\* validateField.Visit: the visitor after the visit, and whether Walk goes on
\* into the children (the visitor returned is not nil).
validateFieldVisit(c, n) ==
    IF n.type # "BinaryExpr" THEN [c |-> c, descend |-> TRUE]
    ELSE IF n.Op \in InvalidFieldOps
    THEN [c |-> [foundInvalid |-> TRUE, badToken |-> n.Op], descend |-> FALSE]
    ELSE [c |-> c, descend |-> TRUE]

\* Walk(&c, expr) with the validateField visitor c.
RECURSIVE WalkValidate(_, _), WalkValidateAll(_, _)
WalkValidate(c, n) ==
    Bind(validateFieldVisit(c, n), LAMBDA v :
        IF ~v.descend THEN v.c ELSE WalkValidateAll(v.c, Children(n)))

WalkValidateAll(c, ns) ==
    IF ns = <<>> THEN c ELSE WalkValidateAll(WalkValidate(c, Head(ns)), Tail(ns))

----------------------------------------------------------------------------
(* The SELECT statement.                                                   *)

Field(expr, alias) == [type |-> "Field", Expr |-> expr, Alias |-> alias]

Measurement(db, rp, name, regex) ==
    [type |-> "Measurement", Database |-> db, RetentionPolicy |-> rp,
     Name |-> name, Regex |-> regex]

parseAlias(sc) ==
    Bind(scanIgnoreWhitespace(sc), LAMBDA r :
        IF r.t.tok # "AS" THEN R(unscan(r.s), "", Nil) ELSE parseIdent(r.s))

\* The error of parseField for a field with an operator of the WHERE clause.
InvalidOperatorError(badToken, pos) ==
    PlainError(<<"invalid operator ", TokString(badToken), " in SELECT clause at line ",
                 Itoa(pos.Line + 1), ", char ", Itoa(pos.Char + 1),
                 "; operator is intended for WHERE clause">>)

\* parseField after the expression e that starts at pos.
FieldRest(e, pos) ==
    IF ~Ok(e) THEN e
    ELSE Bind(WalkValidate([foundInvalid |-> FALSE, badToken |-> ""], e.v), LAMBDA c :
        IF c.foundInvalid THEN Fail(e.s, InvalidOperatorError(c.badToken, pos))
        ELSE Bind(parseAlias(e.s), LAMBDA a :
            IF ~Ok(a) THEN a
            ELSE R(consumeWhitespace(a.s), Field(e.v, a.v), Nil)))

parseField(sc) ==
    Bind(scanIgnoreWhitespace(sc), LAMBDA r0 :
        FieldRest(ParseExpr(unscan(r0.s)), r0.t.pos))

RECURSIVE FieldsLoop(_, _)
FieldsLoop(sc, fields) ==
    Bind(parseField(sc), LAMBDA f :
        IF ~Ok(f) THEN f
        ELSE Bind(scan(f.s), LAMBDA t :
            IF t.t.tok # "COMMA" THEN R(unscan(t.s), Append(fields, f.v), Nil)
            ELSE FieldsLoop(t.s, Append(fields, f.v))))

parseFields(sc) == FieldsLoop(sc, <<>>)

\* A variant of AssignIdents: the regex is not looked at.
AssignIgnoringRegex(idents, re) ==
    CASE Len(idents) = 1 -> Measurement("", "", idents[1], re)
      [] Len(idents) = 2 -> Measurement("", idents[1], idents[2], re)
      [] OTHER -> Measurement("", "", "", re)

\* The switch of parseSource that assigns fewer than three identifiers.
AssignIdents(idents, re) ==
    CASE Len(idents) = 1 ->
           IF ~IsNil(re) THEN Measurement("", idents[1], "", re)
           ELSE Measurement("", "", idents[1], re)
      [] Len(idents) = 2 ->
           IF ~IsNil(re) THEN Measurement(idents[1], idents[2], "", re)
           ELSE Measurement("", idents[1], idents[2], re)
      [] OTHER -> Measurement("", "", "", re)

\* parseSource after the segmented identifiers ids.
SourceRest(ids) ==
    IF ~Ok(ids) THEN ids
    ELSE IF Len(ids.v) = 3
    THEN R(ids.s, Measurement(ids.v[1], ids.v[2], ids.v[3], Nil), Nil)
    ELSE Bind(parseRegex(ids.s), LAMBDA re2 :
        IF ~Ok(re2) THEN re2 ELSE R(re2.s, AssignIdents(ids.v, re2.v), Nil))

parseSource(sc) ==
    Bind(parseRegex(sc), LAMBDA re :
        IF ~Ok(re) THEN re
        ELSE IF ~IsNil(re.v) THEN R(re.s, Measurement("", "", "", re.v), Nil)
        ELSE SourceRest(parseSegmentedIdents(re.s)))

RECURSIVE SourcesLoop(_, _)
SourcesLoop(sc, sources) ==
    Bind(parseSource(sc), LAMBDA src :
        IF ~Ok(src) THEN src
        ELSE Bind(scanIgnoreWhitespace(src.s), LAMBDA t :
            IF t.t.tok # "COMMA" THEN R(unscan(t.s), Append(sources, src.v), Nil)
            ELSE SourcesLoop(t.s, Append(sources, src.v))))

parseSources(sc) == SourcesLoop(sc, <<>>)

parseCondition(sc) ==
    Bind(scanIgnoreWhitespace(sc), LAMBDA r :
        IF r.t.tok # "WHERE" THEN R(unscan(r.s), Nil, Nil) ELSE ParseExpr(r.s))

\* Whether the function WalkFunc calls in parseSelectStatement finds a Call
\* among the nodes.
AnyCall(nodes) == \E j \in 1..Len(nodes) : nodes[j].type = "Call"

\* A variant of IsRawQuery: only the field expressions themselves are looked
\* at, not the nodes under them.
IsRawQueryTopLevel(fields) == \A i \in 1..Len(fields) : fields[i].Expr.type # "Call"

\* stmt.IsRawQuery as parseSelectStatement sets it: WalkFunc over the fields.
IsRawQuery(fields) == \A i \in 1..Len(fields) : ~AnyCall(Nodes(fields[i].Expr))

SelectStatement(fields, sources, condition) ==
    [type |-> "SelectStatement", Fields |-> fields, Sources |-> sources,
     Condition |-> condition, IsRawQuery |-> IsRawQuery(fields)]

\* The error of the validation hook stmt.validate().
ValidateError == PlainError(<<"invalid statement">>)

\* parseSelectStatement after the fields f, FROM and the sources src;
\* validateOk is the outcome of stmt.validate() on the statement.
SelectRest(f, src, validateOk) ==
    IF ~Ok(src) THEN src
    ELSE Bind(parseCondition(src.s), LAMBDA cond :
        IF ~Ok(cond) THEN cond
        ELSE IF ~validateOk THEN Fail(cond.s, ValidateError)
        ELSE R(cond.s, SelectStatement(f.v, src.v, cond.v), Nil))

parseSelectStatement(sc, validateOk) ==
    Bind(parseFields(sc), LAMBDA f :
        IF ~Ok(f) THEN f
        ELSE Bind(scanIgnoreWhitespace(f.s), LAMBDA t :
            IF t.t.tok # "FROM" THEN Unexpected(t, <<"FROM">>)
            ELSE SelectRest(f, parseSources(t.s), validateOk)))

ParseStatementAt(sc, validateOk) ==
    Bind(scanIgnoreWhitespace(sc), LAMBDA t :
        IF t.t.tok = "SELECT" THEN parseSelectStatement(t.s, validateOk)
        ELSE Unexpected(t, <<"SELECT">>))

Query(stmts) == [type |-> "Query", Statements |-> stmts]

\* A variant of SemiAfterStatement: semi is not reset after a statement.
SemiLeftSet == TRUE

\* The value ParseQuery gives semi after it has appended a statement.
SemiAfterStatement == FALSE

----------------------------------------------------------------------------
(* The inputs of the model.                                                *)

WS == Tok("WS", " ")

ID(x) == Tok("IDENT", x)

KW(k) == Tok(k, "")

RE(x) == Tok("RAWREGEX", x)

OperandNames == <<"a", "b", "c", "d", "e", "f">>

ChainOps == {"OR", "AND", "EQ", "GT", "EQREGEX", "ADD", "SUB", "MUL", "DIV"}

\* operand0 op1 operand1 ... opN operandN; the operand of a regex operator
\* is a regex literal.
ChainInput(ops) ==
    <<ID(OperandNames[1])>> \o
    Flatten([i \in 1..Len(ops) |->
               <<WS, KW(ops[i]), WS,
                 IF IsRegexOp(ops[i]) THEN RE("re") ELSE ID(OperandNames[i + 1])>>])

Chains == UNION {{ChainInput(ops) : ops \in [1..n -> ChainOps]} : n \in 0..MaxOps}

\* Primary expressions, well formed and not.
Primaries ==
    { <<ID("a"), KW("DOT"), ID("b")>>,
      <<ID("a"), KW("DOT"), ID("b"), KW("DOT"), ID("c")>>,
      <<ID("a"), KW("DOT"), ID("b"), KW("DOT"), ID("c"), KW("DOT"), ID("d")>>,
      <<ID("a"), KW("DOT"), KW("DOT"), ID("c")>>,
      <<ID("a"), KW("DOT"), KW("DOT"), KW("DOT"), ID("c")>>,
      <<ID("a"), KW("DOT")>>,
      <<ID("a"), KW("DOUBLECOLON"), ID("float")>>,
      <<ID("a"), KW("DOUBLECOLON"), ID("FLOAT")>>,
      <<ID("a"), KW("DOUBLECOLON"), ID("Integer")>>,
      <<ID("a"), KW("DOUBLECOLON"), ID("string")>>,
      <<ID("a"), KW("DOUBLECOLON"), ID("boolean")>>,
      <<ID("a"), KW("DOUBLECOLON"), ID("field")>>,
      <<ID("a"), KW("DOUBLECOLON"), Tok("INTEGER", "1")>>,
      <<Tok("STRING", "server01")>>,
      <<Tok("NUMBER", "1.5")>>,
      <<Tok("NUMBER", "1e999")>>,
      <<Tok("INTEGER", "10")>>,
      <<Tok("INTEGER", "99999999999999999999")>>,
      <<KW("TRUE")>>,
      <<KW("FALSE")>>,
      <<Tok("BOUNDPARAM", "$host")>>,
      <<Tok("BOUNDPARAM", "$n")>>,
      <<Tok("BOUNDPARAM", "$")>>,
      <<KW("LPAREN"), ID("a"), KW("RPAREN")>>,
      <<KW("LPAREN"), ID("a"), WS, KW("ADD"), WS, ID("b"), KW("RPAREN")>>,
      <<KW("LPAREN"), ID("a"), WS, KW("EQ"), WS, Tok("BOUNDPARAM", "$host"), KW("RPAREN")>>,
      <<KW("LPAREN"), ID("a"), WS, KW("ADD"), WS, ID("b")>>,
      <<KW("LPAREN"), KW("LPAREN"), ID("a"), KW("RPAREN"), KW("RPAREN")>>,
      <<KW("LPAREN"), KW("RPAREN")>>,
      <<ID("f"), KW("LPAREN"), KW("RPAREN")>>,
      <<ID("f"), KW("LPAREN"), ID("a"), KW("RPAREN")>>,
      <<ID("f"), WS, KW("LPAREN"), ID("a"), KW("RPAREN")>>,
      <<ID("MEAN"), KW("LPAREN"), WS, ID("a"), WS, KW("RPAREN")>>,
      <<ID("f"), KW("LPAREN"), ID("a"), KW("COMMA"), WS, ID("b"), KW("RPAREN")>>,
      <<ID("f"), KW("LPAREN"), RE("re"), KW("RPAREN")>>,
      <<ID("f"), KW("LPAREN"), RE("["), KW("RPAREN")>>,
      <<ID("f"), KW("LPAREN"), RE("re"), KW("COMMA"), WS, ID("a"), KW("RPAREN")>>,
      <<ID("f"), KW("LPAREN"), ID("a"), KW("COMMA"), WS, RE("re"), KW("RPAREN")>>,
      <<ID("f"), KW("LPAREN"), ID("a"), WS, ID("b"), KW("RPAREN")>>,
      <<ID("f"), KW("LPAREN"), ID("a"), WS, KW("EQ"), WS, Tok("INTEGER", "1"), KW("RPAREN")>>,
      <<ID("f"), KW("LPAREN"), ID("g"), KW("LPAREN"), ID("a"), KW("RPAREN"), KW("RPAREN")>>,
      <<ID("f"), KW("LPAREN"), Tok("BOUNDPARAM", "$n"), KW("RPAREN")>>,
      <<ID("f"), KW("LPAREN"), ID("a")>>,
      <<RE("re")>>,
      <<KW("SELECT")>>,
      <<KW("RPAREN")>>,
      <<>> }

\* What may follow a regex operator.
RegexFollowers ==
    { <<RE("re")>>, <<RE("[")>>, <<Tok("RAWBADESC", "bad")>>, <<Tok("RAWBADREGEX", "re")>>,
      <<ID("b")>>, <<Tok("STRING", "re")>>, <<Tok("INTEGER", "1")>>, <<>>,
      <<ID("b"), RE("re")>>, <<KW("LPAREN"), RE("re"), KW("RPAREN")>>,
      <<KW("DIV"), WS, ID("b")>>, <<KW("DIV"), WS, ID("b"), WS, KW("DIV")>>,
      <<Tok("BOUNDPARAM", "$host")>>,
      <<RE("re"), WS, KW("AND"), WS, ID("c")>>,
      <<RE("re"), WS, KW("ADD"), WS, ID("c")>>,
      <<RE("re"), WS, KW("NEQREGEX"), WS, ID("c")>> }

Spaces == {<<>>, <<WS>>}

RegexTails ==
    { <<ID("a")>> \o w1 \o <<KW(op)>> \o w2 \o f :
        w1 \in Spaces, op \in {"EQREGEX", "NEQREGEX"}, w2 \in Spaces, f \in RegexFollowers }

\* A raw sequence that a text can scan to: no two adjacent white spaces and
\* no two adjacent words.
WordKinds ==
    {"IDENT", "INTEGER", "NUMBER", "SELECT", "FROM", "WHERE", "AS", "AND", "OR",
     "TRUE", "FALSE"}

Lexable(raw) ==
    \A i \in 1..(Len(raw) - 1) :
        /\ ~(raw[i].tok = "WS" /\ raw[i + 1].tok = "WS")
        /\ ~(raw[i].tok \in WordKinds /\ raw[i + 1].tok \in WordKinds)

\* Chains with a parenthesised group or a call among the operands.
GroupedChains ==
    { <<ID("a"), WS, KW("ADD"), WS, KW("LPAREN"), ID("b"), WS, KW("ADD"), WS, ID("c"),
        KW("RPAREN"), WS, KW("MUL"), WS, ID("f"), KW("LPAREN"), ID("d"), KW("RPAREN")>>,
      <<KW("LPAREN"), ID("a"), WS, KW("ADD"), WS, ID("b"), KW("RPAREN"), WS, KW("MUL"), WS,
        ID("c"), WS, KW("ADD"), WS, ID("d")>>,
      <<ID("f"), KW("LPAREN"), ID("a"), WS, KW("ADD"), WS, ID("b"), KW("RPAREN"), WS,
        KW("MUL"), WS, ID("c"), WS, KW("OR"), WS, ID("d")>>,
      <<ID("a"), WS, KW("MUL"), WS, KW("LPAREN"), ID("b"), WS, KW("OR"), WS, ID("c"),
        KW("RPAREN"), WS, KW("MUL"), WS, ID("d")>>,
      <<ID("a"), WS, KW("OR"), WS, ID("f"), KW("LPAREN"), ID("b"), WS, KW("OR"), WS, ID("c"),
        KW("RPAREN"), WS, KW("AND"), WS, ID("d")>> }

ExprInputs ==
    { raw \in Chains \cup GroupedChains \cup Primaries \cup RegexTails
        \cup { <<ID("x"), WS, KW("ADD"), WS>> \o p : p \in Primaries }
        \cup { p \o <<WS, KW("MUL"), WS, ID("y")>> : p \in Primaries } :
      Lexable(raw) }

\* Parameter maps handed to SetParams; <<>> is no map.
NoParams == <<>>

ParamMaps ==
    { NoParams,
      [host |-> GoString("server01")],
      [host |-> GoFloat64(ParseFloatVal("1.5"))],
      [host |-> GoInt64(5)],
      [host |-> GoBool(TRUE)],
      [host |-> [int |-> 5]],
      [host |-> [duration |-> 5]],
      [n |-> GoInt64(7)],
      [host |-> GoString("server01"), n |-> GoBool(FALSE)] }

HasBoundParam(raw) == \E i \in 1..Len(raw) : raw[i].tok = "BOUNDPARAM"

ParamsFor(raw) ==
    IF HasBoundParam(raw) THEN ParamMaps ELSE {NoParams, [host |-> GoString("server01")]}

\* Dotted identifiers: shape[i] tells whether segment i is an identifier or
\* empty.
SegNames == <<"db", "rp", "m", "s4", "s5", "s6", "s7">>

Dotted(shape) ==
    Flatten([i \in 1..Len(shape) |->
               (IF i > 1 THEN <<KW("DOT")>> ELSE <<>>) \o
               (IF shape[i] THEN <<ID(SegNames[i])>> ELSE <<>>)])

SegShapes == UNION {[1..k -> BOOLEAN] : k \in 1..MaxSegs}

SourceEndings ==
    { <<>>, <<KW("DOT"), RE("re")>>, <<RE("re")>>, <<WS, RE("re")>>,
      <<KW("DOT"), KW("COLON"), ID("x")>>, <<KW("DOT"), RE("[")>> }

SourceForms ==
    { Dotted(shape) \o e : shape \in SegShapes, e \in SourceEndings }
    \cup { <<RE("re")>>, <<RE("[")>>, <<Tok("RAWBADREGEX", "re")>>, <<Tok("RAWBADESC", "bad")>>,
           <<ID("m"), KW("COMMA"), WS, RE("re")>>,
           <<ID("db"), KW("DOT"), ID("rp"), KW("DOT"), ID("m"), WS, KW("COMMA"), WS, ID("n")>>,
           <<ID("my db"), KW("DOT"), ID("select"), KW("DOT"), ID("m"), KW("DOT"), ID("1x")>>,
           <<Tok("INTEGER", "1")>> }

\* Variable references: dotted identifiers and what may follow them.
VarRefEndings ==
    { <<>>, <<KW("DOUBLECOLON"), ID("float")>>, <<KW("DOUBLECOLON"), ID("tag")>>,
      <<KW("DOT"), RE("re")>>, <<WS, KW("ADD")>> }

VarRefForms == { Dotted(shape) \o e : shape \in SegShapes, e \in VarRefEndings }

SimpleSource == <<ID("cpu")>>

SimpleField == <<ID("value")>>

ValueGt10 == <<ID("value"), WS, KW("GT"), WS, Tok("INTEGER", "10")>>

MeanValue == <<ID("mean"), KW("LPAREN"), ID("value"), KW("RPAREN")>>

FieldForms ==
    { SimpleField, MeanValue, ValueGt10,
      <<KW("LPAREN")>> \o MeanValue \o <<KW("RPAREN")>>,
      <<ID("a"), WS, KW("ADD"), WS>> \o MeanValue,
      <<ID("f"), KW("LPAREN")>> \o MeanValue \o <<KW("RPAREN")>>,
      <<ID("f"), KW("LPAREN"), ID("a"), KW("COMMA"), WS>> \o MeanValue \o <<KW("RPAREN")>>,
      <<ID("f"), KW("LPAREN"), KW("RPAREN")>>,
      <<ID("f"), KW("LPAREN"), RE("re"), KW("RPAREN")>>,
      <<KW("LPAREN")>> \o ValueGt10 \o <<KW("RPAREN")>>,
      <<ID("f"), KW("LPAREN")>> \o ValueGt10 \o <<KW("RPAREN")>>,
      <<ID("a"), WS, KW("MUL"), WS, KW("LPAREN"), ID("b"), WS, KW("AND"), WS, ID("c"), KW("RPAREN")>>,
      <<KW("LPAREN"), ID("a"), WS, KW("EQ"), WS, ID("b"), KW("RPAREN"), WS, KW("ADD"), WS,
        KW("LPAREN"), ID("c"), WS, KW("LT"), WS, ID("d"), KW("RPAREN")>>,
      <<ID("host"), WS, KW("EQREGEX"), WS, RE("re")>>,
      <<ID("a"), WS, KW("OR"), WS, ID("b")>>,
      <<ID("a"), WS, KW("MUL"), WS, Tok("INTEGER", "1"), WS, KW("SUB"), WS, ID("b")>>,
      <<ID("value"), WS, KW("AS"), WS, ID("v")>>,
      <<ID("value"), WS, KW("AS")>>,
      <<ID("a"), KW("COMMA"), WS>> \o MeanValue,
      MeanValue \o <<WS, KW("COMMA"), WS, ID("b")>>,
      <<ID("a"), KW("COMMA"), WS, ID("b"), WS, KW("NEQ"), WS, ID("c")>>,
      <<Tok("STRING", "str")>>,
      <<Tok("BOUNDPARAM", "$host")>>,
      <<Tok("INTEGER", "1"), WS, KW("ADD")>> }

WhereValueGt10 == <<WS, KW("WHERE"), WS>> \o ValueGt10

CondForms ==
    { <<>>, WhereValueGt10,
      <<WS, KW("WHERE"), WS, ID("host"), WS, KW("EQ"), WS, Tok("STRING", "server01")>>,
      <<WS, KW("WHERE"), WS>> \o ValueGt10 \o
          <<WS, KW("AND"), WS, ID("value"), WS, KW("LT"), WS, Tok("INTEGER", "20")>>,
      <<WS, KW("WHERE"), WS>> \o MeanValue \o <<WS, KW("GT"), WS, Tok("INTEGER", "1")>>,
      <<WS, KW("WHERE"), WS, ID("host"), WS, KW("EQREGEX"), WS, RE("re")>>,
      <<WS, KW("WHERE"), WS, ID("host"), WS, KW("EQ"), WS, Tok("BOUNDPARAM", "$host")>>,
      <<WS, KW("WHERE")>>,
      <<WS, ID("x")>> }

SelectInput(fields, source, cond) ==
    <<KW("SELECT"), WS>> \o fields \o <<WS, KW("FROM"), WS>> \o source \o cond

StatementInputs ==
    { raw \in
        { SelectInput(f, SimpleSource, c) : f \in FieldForms, c \in CondForms }
        \cup { SelectInput(f, src, c) : f \in {SimpleField, MeanValue}, src \in SourceForms,
                                         c \in {<<>>, <<WS, KW("WHERE"), WS>> \o MeanValue} }
        \cup { <<>>, <<ID("x")>>, <<WS, KW("SELECT"), WS, ID("a")>>,
               <<KW("SELECT"), WS, ID("a"), WS, KW("WHERE")>>,
               <<KW("FROM"), WS, ID("a")>> } :
      Lexable(raw) }

\* Queries: sequences of statements and what may stand between them.
QueryPieces ==
    { <<KW("SELECT"), WS, ID("a"), WS, KW("FROM"), WS, ID("b")>>,
      <<KW("SELECT"), WS>> \o MeanValue \o <<WS, KW("FROM"), WS, ID("b"), WS, KW("WHERE"), WS,
          ID("c"), WS, KW("EQREGEX"), WS, RE("re")>>,
      <<KW("SELECT"), WS, KW("FROM"), WS, ID("b")>>,
      <<KW("SEMICOLON")>>,
      <<WS>>,
      <<ID("x")>> }

QueryInputs ==
    { raw \in UNION {{Flatten(ps) : ps \in [1..n -> QueryPieces]} : n \in 0..MaxPieces} :
      Lexable(raw) }

----------------------------------------------------------------------------
(* The state machine.                                                      *)

InitWith(e, raw, pm) ==
    /\ entry = e
    /\ input = raw
    /\ params = pm
    /\ s = newBufScanner(raw)
    /\ pc = "start"
    /\ statements = <<>>
    /\ semi = TRUE
    /\ qlog = <<>>
    /\ root = Nil
    /\ ins = Nil
    /\ identsRead = <<>>
    /\ result = Nil
    /\ err = Nil

\* ParseQuery(s) on a query.
InitQuery == \E raw \in QueryInputs : \E pm \in {NoParams} : InitWith("ParseQuery", raw, pm)

\* ParseStatement(s) on a statement.
InitStatement ==
    \E raw \in StatementInputs : \E pm \in ParamsFor(raw) : InitWith("ParseStatement", raw, pm)

\* ParseExpr(s) on an expression.
InitExpr == \E raw \in ExprInputs : \E pm \in ParamsFor(raw) : InitWith("ParseExpr", raw, pm)

\* parseSource on a source, parseVarRef on a variable reference.
InitSource ==
    \/ \E raw \in SourceForms : InitWith("parseSource", raw, NoParams)
    \/ \E raw \in VarRefForms : InitWith("parseVarRef", raw, NoParams)

Return(sc, v, e) ==
    /\ pc' = "done"
    /\ s' = sc
    /\ result' = v
    /\ err' = e

\* ParseQuery: the loop reads EOF and returns the query.
QueryEOF ==
    /\ entry = "ParseQuery" /\ pc = "start"
    /\ \E t \in {scanIgnoreWhitespace(s)} :
       /\ t.t.tok = "EOF"
       /\ Return(t.s, Query(statements), Nil)
    /\ UNCHANGED <<entry, input, params, statements, semi, qlog, root, ins, identsRead>>

\* ParseQuery: the loop reads a semicolon.
QuerySemicolon ==
    /\ entry = "ParseQuery" /\ pc = "start"
    /\ \E t \in {scanIgnoreWhitespace(s)} :
       /\ t.t.tok = "SEMICOLON"
       /\ s' = t.s
       /\ semi' = TRUE
       /\ qlog' = Append(qlog, ";")
    /\ UNCHANGED <<entry, input, params, pc, statements, root, ins, result, err, identsRead>>

\* ParseQuery: the loop reads another token and semi is false.
QueryExpectedSemicolon ==
    /\ entry = "ParseQuery" /\ pc = "start"
    /\ \E t \in {scanIgnoreWhitespace(s)} :
       /\ t.t.tok \notin {"EOF", "SEMICOLON"}
       /\ ~semi
       /\ Return(t.s, Nil, newParseError(tokstr(t.t.tok, t.t.lit), <<";">>, t.t.pos))
    /\ UNCHANGED <<entry, input, params, statements, semi, qlog, root, ins, identsRead>>

\* ParseQuery: the loop reads another token, semi is true and the statement
\* parses.
QueryStatement ==
    /\ entry = "ParseQuery" /\ pc = "start"
    /\ \E t \in {scanIgnoreWhitespace(s)} :
       /\ t.t.tok \notin {"EOF", "SEMICOLON"}
       /\ semi
       /\ \E validateOk \in BOOLEAN :
            \E r \in {ParseStatementAt(unscan(t.s), validateOk)} :
            /\ Ok(r)
            /\ s' = r.s
            /\ statements' = Append(statements, r.v)
            /\ semi' = SemiAfterStatement
            /\ qlog' = Append(qlog, "stmt")
    /\ UNCHANGED <<entry, input, params, pc, root, ins, result, err, identsRead>>

\* ParseQuery: the statement does not parse.
QueryStatementError ==
    /\ entry = "ParseQuery" /\ pc = "start"
    /\ \E t \in {scanIgnoreWhitespace(s)} :
       /\ t.t.tok \notin {"EOF", "SEMICOLON"}
       /\ semi
       /\ \E validateOk \in BOOLEAN :
            \E r \in {ParseStatementAt(unscan(t.s), validateOk)} :
            /\ ~Ok(r)
            /\ Return(r.s, Nil, r.err)
    /\ UNCHANGED <<entry, input, params, statements, semi, qlog, root, ins, identsRead>>

\* ParseStatement.
StatementCall ==
    /\ entry = "ParseStatement" /\ pc = "start"
    /\ \E validateOk \in BOOLEAN :
         \E r \in {ParseStatementAt(s, validateOk)} : Return(r.s, r.v, r.err)
    /\ UNCHANGED <<entry, input, params, statements, semi, qlog, root, ins, identsRead>>

\* ParseExpr: the first operand becomes root.RHS.
ExprFirst ==
    /\ entry = "ParseExpr" /\ pc = "start"
    /\ \E first \in {parseUnaryExpr(s)} :
       /\ Ok(first)
       /\ s' = first.s
       /\ root' = first.v
       /\ pc' = "loop"
    /\ UNCHANGED <<entry, input, params, statements, semi, qlog, ins, result, err, identsRead>>

\* ParseExpr: the first operand does not parse.
ExprFirstError ==
    /\ entry = "ParseExpr" /\ pc = "start"
    /\ \E first \in {parseUnaryExpr(s)} :
       /\ ~Ok(first)
       /\ Return(first.s, Nil, first.err)
    /\ UNCHANGED <<entry, input, params, statements, semi, qlog, root, ins, identsRead>>

\* ParseExpr: the loop reads an operator and its operand and inserts them.
ExprInsert ==
    /\ entry = "ParseExpr" /\ pc = "loop"
    /\ \E st \in {ExprStep(s, root)} :
       /\ ~st.done
       /\ s' = st.s
       /\ root' = st.v
       /\ ins' = [type |-> "insertion", op |-> st.op, rhs |-> st.rhs, before |-> root]
    /\ UNCHANGED <<entry, input, params, pc, statements, semi, qlog, result, err, identsRead>>

\* ParseExpr: the loop reads a token that is no operator and returns root.RHS.
ExprReturn ==
    /\ entry = "ParseExpr" /\ pc = "loop"
    /\ \E st \in {ExprStep(s, root)} :
       /\ st.done /\ IsNil(st.err)
       /\ Return(st.s, st.v, Nil)
    /\ UNCHANGED <<entry, input, params, statements, semi, qlog, root, ins, identsRead>>

\* ParseExpr: the operand of an operator does not parse.
ExprOperandError ==
    /\ entry = "ParseExpr" /\ pc = "loop"
    /\ \E st \in {ExprStep(s, root)} :
       /\ st.done /\ ~IsNil(st.err)
       /\ Return(st.s, Nil, st.err)
    /\ UNCHANGED <<entry, input, params, statements, semi, qlog, root, ins, identsRead>>

\* parseSource: the attempt to parse a regex first.
SourceLeadingRegex ==
    /\ entry = "parseSource" /\ pc = "start"
    /\ \E re \in {parseRegex(s)} :
       IF ~Ok(re) THEN Return(re.s, Nil, re.err)
       ELSE IF ~IsNil(re.v) THEN Return(re.s, Measurement("", "", "", re.v), Nil)
       ELSE /\ s' = re.s
            /\ pc' = "identsRead"
            /\ UNCHANGED <<result, err>>
    /\ UNCHANGED <<entry, input, params, statements, semi, qlog, root, ins, identsRead>>

\* parseSource, parseVarRef: the call of parseSegmentedIdents.
SegmentedIdents ==
    /\ \/ entry = "parseSource" /\ pc = "identsRead"
       \/ entry = "parseVarRef" /\ pc = "start"
    /\ \E r \in {parseSegmentedIdents(s)} :
       IF ~Ok(r)
       THEN /\ Return(r.s, Nil, r.err)
            /\ UNCHANGED identsRead
       ELSE /\ s' = r.s
            /\ identsRead' = r.v
            /\ pc' = "rest"
            /\ UNCHANGED <<result, err>>
    /\ UNCHANGED <<entry, input, params, statements, semi, qlog, root, ins>>

\* parseSource after the identifiers: three of them, or the second attempt
\* to parse a regex and the assignment.
SourceAssign ==
    /\ entry = "parseSource" /\ pc = "rest"
    /\ \E r \in {SourceRest(R(s, identsRead, Nil))} : Return(r.s, r.v, r.err)
    /\ UNCHANGED <<entry, input, params, statements, semi, qlog, root, ins, identsRead>>

\* parseVarRef after the identifiers: the optional type and the VarRef.
VarRefType ==
    /\ entry = "parseVarRef" /\ pc = "rest"
    /\ \E r \in {VarRefRest(R(s, identsRead, Nil))} : Return(r.s, r.v, r.err)
    /\ UNCHANGED <<entry, input, params, statements, semi, qlog, root, ins, identsRead>>

NextQuery ==
    \/ QueryEOF
    \/ QuerySemicolon
    \/ QueryExpectedSemicolon
    \/ QueryStatement
    \/ QueryStatementError

NextStatement == StatementCall

NextExpr ==
    \/ ExprFirst
    \/ ExprFirstError
    \/ ExprInsert
    \/ ExprReturn
    \/ ExprOperandError

NextSource ==
    \/ SourceLeadingRegex
    \/ SegmentedIdents
    \/ SourceAssign
    \/ VarRefType

Spec == InitQuery /\ [][NextQuery]_vars

SpecStatement == InitStatement /\ [][NextStatement]_vars

SpecExpr == InitExpr /\ [][NextExpr]_vars

SpecSource == InitSource /\ [][NextSource]_vars

----------------------------------------------------------------------------
(* ParseQuery: statements are separated by semicolons.                      *)

\* Between any two SELECT tokens of the raw input there is a SEMICOLON.
SelectsSeparated(raw) ==
    \A i, j \in 1..Len(raw) :
        (i < j /\ raw[i].tok = "SELECT" /\ raw[j].tok = "SELECT")
            => \E k \in i..j : raw[k].tok = "SEMICOLON"

\* The loop of ParseQuery has not read two statements in a row.
NoAdjacentStatements(log) ==
    \A i \in 1..(Len(log) - 1) : ~(log[i] = "stmt" /\ log[i + 1] = "stmt")

\* ParseQuery is about to read the first token of a statement right after a
\* statement.
StatementAfterStatement ==
    /\ entry = "ParseQuery" /\ pc = "start"
    /\ qlog # <<>> /\ Last(qlog) = "stmt"
    /\ scanIgnoreWhitespace(s).t.tok \notin {"EOF", "SEMICOLON"}

\* The found/expected error with the expected set {";"} on the next token.
ExpectedSemicolonError ==
    Bind(scanIgnoreWhitespace(s).t, LAMBDA t :
        newParseError(tokstr(t.tok, t.lit), <<";">>, t.pos))

\* C1: ParseQuery returns a Query only if every two consecutive statements
\* are separated by at least one SEMICOLON token; when the first token of a
\* statement is reached right after a statement, with no SEMICOLON scanned in
\* between, ParseQuery returns the found/expected error whose expected set is
\* exactly {";"} and no Query.
C1_SemicolonBetweenStatements ==
    /\ []((pc = "done" /\ IsNil(err)) =>
            /\ result = Query(statements)
            /\ NoAdjacentStatements(qlog)
            /\ SelectsSeparated(input))
    /\ [][StatementAfterStatement =>
            /\ pc' = "done"
            /\ result' = Nil
            /\ err' = ExpectedSemicolonError
            /\ err'.Expected = <<";">>]_vars

\* ParseQuery has returned the expected-";" error after one statement.
C1_Witness ==
    /\ pc = "done"
    /\ Len(statements) = 1 /\ Last(qlog) = "stmt"
    /\ result = Nil
    /\ err.type = "ParseError" /\ err.Expected = <<";">> /\ err.Found = "SELECT"

----------------------------------------------------------------------------
(* ParseExpr: the tree of a chain of binary operators.                      *)

\* The operators of a chain, and its operands as nodes.
ChainOperators(raw) == SelectSeq(raw, LAMBDA t : isOperator(t.tok))

OperandNode(t) ==
    IF t.tok = "RAWREGEX" THEN RegexLiteral(t.lit) ELSE VarRef(<<t.lit>>, "Unknown")

ChainOperandTokens(raw) == SelectSeq(raw, LAMBDA t : t.tok \in {"IDENT", "RAWREGEX"})

\* The rightmost operator of the lowest precedence among ops[lo..hi].
SplitPoint(ops, lo, hi) ==
    CHOOSE k \in lo..hi :
        /\ \A j \in lo..hi : Precedence(ops[k].tok) <= Precedence(ops[j].tok)
        /\ \A j \in (k + 1)..hi : Precedence(ops[k].tok) < Precedence(ops[j].tok)

\* The reference parser: the tree of operands lo..hi splits at the operator
\* that binds loosest, the rightmost of them, so that operators of equal
\* precedence group to the left.
RECURSIVE RefTree(_, _, _, _)
RefTree(ops, operands, lo, hi) ==
    IF lo = hi THEN OperandNode(operands[lo])
    ELSE Bind(SplitPoint(ops, lo, hi - 1), LAMBDA k :
        BinaryExpr(RefTree(ops, operands, lo, k), ops[k].tok,
                   RefTree(ops, operands, k + 1, hi)))

ReferenceParse(raw) ==
    RefTree(ChainOperators(raw), ChainOperandTokens(raw), 1, Len(ChainOperandTokens(raw)))

\* C2: for every unparenthesised chain of binary operators ParseExpr returns
\* the tree of the reference precedence parser: an operator of higher
\* precedence binds tighter than a neighbour of lower precedence, and
\* operators of equal precedence group to the left.
C2_ChainMatchesReference ==
    (entry = "ParseExpr" /\ pc = "done" /\ input \in Chains) =>
        /\ IsNil(err)
        /\ result = ReferenceParse(input)
        /\ input = ChainInput(<<"ADD", "MUL">>) =>
              /\ result.Op = "ADD" /\ result.RHS.type = "BinaryExpr"
              /\ result.RHS.Op = "MUL"
        /\ input = ChainInput(<<"SUB", "SUB">>) =>
              /\ result.LHS.type = "BinaryExpr"
              /\ result.RHS = VarRef(<<"c">>, "Unknown")

\* ParseExpr has returned a - b - c grouped to the left.
C2_Witness ==
    /\ entry = "ParseExpr" /\ pc = "done" /\ IsNil(err)
    /\ input = ChainInput(<<"SUB", "SUB">>)
    /\ result = BinaryExpr(BinaryExpr(VarRef(<<"a">>, "Unknown"), "SUB",
                                      VarRef(<<"b">>, "Unknown")),
                           "SUB", VarRef(<<"c">>, "Unknown"))

----------------------------------------------------------------------------
(* ParseExpr: where an insertion puts the new node.                         *)

\* The BinaryExpr nodes on the right spine of n, from the top.
RECURSIVE RightSpine(_)
RightSpine(n) == IF n.type # "BinaryExpr" THEN <<>> ELSE <<n>> \o RightSpine(n.RHS)

\* The node reached from n by d steps along the right child.
RECURSIVE RightDescendant(_, _)
RightDescendant(n, d) == IF d = 0 THEN n ELSE RightDescendant(n.RHS, d - 1)

\* n with the node d steps down the right spine replaced by m.
RECURSIVE ReplaceRight(_, _, _)
ReplaceRight(n, d, m) ==
    IF d = 0 THEN m ELSE [n EXCEPT !.RHS = ReplaceRight(n.RHS, d - 1, m)]

\* The number of steps the descent takes under the root when it goes on
\* while Goes(node) holds of the right child.
DescentDepth(spine, Goes(_)) ==
    CHOOSE d \in 0..Len(spine) :
        /\ \A i \in 1..d : Goes(spine[i])
        /\ d < Len(spine) => ~Goes(spine[d + 1])

\* The tree after op and rhs are inserted d steps down the right spine of
\* before: the displaced subtree is the left child of the new node.
InsertedAt(before, d, op, rhs) ==
    ReplaceRight(before, d, BinaryExpr(RightDescendant(before, d), op, rhs))

\* C10 as stated: the insertion descends along the right child as long as
\* that child is a BinaryExpr whose operator has precedence greater than or
\* equal to the new operator's, and inserts the new node where this first
\* fails or the right child is not a BinaryExpr.
C10_DescendsWhileGreaterOrEqual ==
    ~IsNil(ins) =>
        root = InsertedAt(ins.before,
                          DescentDepth(RightSpine(ins.before),
                                       LAMBDA n : Precedence(n.Op) >= Precedence(ins.op)),
                          ins.op, ins.rhs)

\* C10, amended: the insertion descends along the right child as long as
\* that child is a BinaryExpr whose operator has precedence strictly less
\* than the new operator's, and inserts the new node at the first point
\* where the right child is not a BinaryExpr or has precedence greater than
\* or equal to the new operator's; the displaced subtree becomes the left
\* child of the new node and the newly parsed operand its right child.
C10_DescendsWhileLess ==
    ~IsNil(ins) =>
        /\ root = InsertedAt(ins.before,
                             DescentDepth(RightSpine(ins.before),
                                          LAMBDA n : Precedence(n.Op) < Precedence(ins.op)),
                             ins.op, ins.rhs)
        /\ Bind(DescentDepth(RightSpine(ins.before),
                              LAMBDA n : Precedence(n.Op) < Precedence(ins.op)),
                LAMBDA d :
                    RightDescendant(root, d) =
                        BinaryExpr(RightDescendant(ins.before, d), ins.op, ins.rhs))

\* An insertion has descended one step: a + b, then * c under the +.
C10_Witness ==
    /\ ~IsNil(ins)
    /\ ins.before.type = "BinaryExpr" /\ ins.before.Op = "ADD" /\ ins.op = "MUL"
    /\ root.Op = "ADD" /\ root.RHS.type = "BinaryExpr" /\ root.RHS.Op = "MUL"
    /\ root.RHS.LHS = ins.before.RHS

----------------------------------------------------------------------------
(* parseSelectStatement: IsRawQuery.                                        *)

\* n is a Call or has a Call under it.
RECURSIVE ContainsCall(_)
ContainsCall(n) ==
    CASE n.type = "Call" -> TRUE
      [] n.type = "BinaryExpr" -> ContainsCall(n.LHS) \/ ContainsCall(n.RHS)
      [] n.type = "ParenExpr" -> ContainsCall(n.Expr)
      [] OTHER -> FALSE

\* The text before FROM has an identifier immediately followed by "(".
CallTextInFields(raw) ==
    \E i \in 1..(Len(raw) - 1) :
        /\ raw[i].tok = "IDENT" /\ raw[i + 1].tok = "LPAREN"
        /\ \A j \in 1..i : raw[j].tok # "FROM"

\* C3: for every SelectStatement a successful parse returns, IsRawQuery is
\* true if and only if no field expression contains a Call node anywhere in
\* its subtree; Call nodes in the WHERE condition do not affect it.
C3_IsRawQueryIffNoCall ==
    (entry = "ParseStatement" /\ pc = "done" /\ IsNil(err)) =>
        /\ result.IsRawQuery =
              (\A i \in 1..Len(result.Fields) : ~ContainsCall(result.Fields[i].Expr))
        /\ result.IsRawQuery = ~CallTextInFields(input)

\* A statement with a call in the WHERE condition only is a raw query.
C3_Witness ==
    /\ entry = "ParseStatement" /\ pc = "done" /\ IsNil(err)
    /\ result.IsRawQuery
    /\ ContainsCall(result.Condition)

----------------------------------------------------------------------------
(* parseField: operators of the WHERE clause.                               *)

WhereOperators ==
    {"EQ", "NEQ", "EQREGEX", "NEQREGEX", "LT", "LTE", "GT", "GTE", "AND", "OR"}

\* n is a BinaryExpr with an operator of the WHERE clause or has one under it.
RECURSIVE HasWhereOperator(_)
HasWhereOperator(n) ==
    CASE n.type = "BinaryExpr" ->
           n.Op \in WhereOperators \/ HasWhereOperator(n.LHS) \/ HasWhereOperator(n.RHS)
      [] n.type = "ParenExpr" -> HasWhereOperator(n.Expr)
      [] n.type = "Call" -> \E i \in 1..Len(n.Args) : HasWhereOperator(n.Args[i])
      [] OTHER -> FALSE

IsWhereClauseError(e) ==
    /\ ~IsNil(e)
    /\ Head(ErrorText(e)) = "invalid operator "
    /\ Last(ErrorText(e)) = "; operator is intended for WHERE clause"

\* C4: parseField fails with the "operator is intended for WHERE clause"
\* error whenever the parsed field expression contains, at the top level or
\* nested, a BinaryExpr whose operator is a comparison, a regex match, AND or
\* OR; no SelectStatement that is returned has such an operator in a field,
\* and the same expression after WHERE is accepted.
C4_NoWhereOperatorInFields ==
    (entry = "ParseStatement" /\ pc = "done") =>
        /\ IsNil(err) =>
              \A i \in 1..Len(result.Fields) : ~HasWhereOperator(result.Fields[i].Expr)
        /\ \A f \in FieldForms : \A c \in CondForms :
              input = SelectInput(f, SimpleSource, c) =>
                  Bind(ParseExpr(newBufScanner(f)), LAMBDA e :
                      (Ok(e) /\ HasWhereOperator(e.v)) =>
                          (IsWhereClauseError(err) /\ result = Nil))
        /\ input = SelectInput(SimpleField, SimpleSource, WhereValueGt10) =>
              /\ err \in {Nil, ValidateError}
              /\ IsNil(err) =>
                    /\ result.Condition = ParseExpr(newBufScanner(ValueGt10)).v
                    /\ HasWhereOperator(result.Condition)

\* SELECT value > 10 FROM cpu has failed with the error.
C4_Witness ==
    /\ entry = "ParseStatement" /\ pc = "done"
    /\ input = SelectInput(ValueGt10, SimpleSource, <<>>)
    /\ result = Nil
    /\ IsWhereClauseError(err)

----------------------------------------------------------------------------
(* parseSource and parseSegmentedIdents.                                    *)

\* The segments of the dotted identifier of a shape.
ShapeSegments(shape) == [i \in 1..Len(shape) |-> IF shape[i] THEN SegNames[i] ELSE ""]

\* A dotted identifier starts and ends with an identifier.
WellFormed(shape) == shape[1] /\ shape[Len(shape)]

\* The Measurement the segments read and the regex that follows give.
SegmentMapping(segments, regex) ==
    CASE Len(segments) = 3 -> Measurement(segments[1], segments[2], segments[3], Nil)
      [] Len(segments) = 2 /\ IsNil(regex) -> Measurement("", segments[1], segments[2], Nil)
      [] Len(segments) = 2 /\ ~IsNil(regex) -> Measurement(segments[1], segments[2], "", regex)
      [] Len(segments) = 1 /\ IsNil(regex) -> Measurement("", "", segments[1], Nil)
      [] Len(segments) = 1 /\ ~IsNil(regex) -> Measurement("", segments[1], "", regex)
      [] Len(segments) = 0 /\ ~IsNil(regex) -> Measurement("", "", "", regex)

\* C5: parseSource maps the segments it read to the Measurement: 3 segments
\* give database, retention policy and name; 2 segments give retention policy
\* and name, or database and retention policy when a regex follows; 1 segment
\* gives name, or retention policy when a regex follows; a source that starts
\* with a regex sets only the regex; "db"..m gives database "db", an empty
\* retention policy and name "m"; a name and a regex are never both set.
C5_SegmentsToMeasurement ==
    (entry = "parseSource" /\ pc = "done" /\ IsNil(err)) =>
        /\ Len(identsRead) \in 0..3
        /\ Len(identsRead) = 0 => ~IsNil(result.Regex)
        /\ result = SegmentMapping(identsRead, result.Regex)
        /\ ~(result.Name # "" /\ ~IsNil(result.Regex))
        /\ input = <<ID("db"), KW("DOT"), KW("DOT"), ID("m")>> =>
              result = Measurement("db", "", "m", Nil)
        /\ \A shape \in SegShapes :
              (WellFormed(shape) /\ Len(shape) <= 3) =>
                  /\ input = Dotted(shape) =>
                        /\ identsRead = ShapeSegments(shape)
                        /\ IsNil(result.Regex)
                  /\ (input = Dotted(shape) \o <<KW("DOT"), RE("re")>> /\ Len(shape) <= 2) =>
                        /\ identsRead = ShapeSegments(shape)
                        /\ result.Regex = RegexLiteral("re")
        /\ input = <<RE("re")>> => result = Measurement("", "", "", RegexLiteral("re"))

\* db.rp./re/ has given database and retention policy.
C5_Witness ==
    /\ entry = "parseSource" /\ pc = "done" /\ IsNil(err)
    /\ identsRead = <<"db", "rp">>
    /\ result = Measurement("db", "rp", "", RegexLiteral("re"))

IsTooManySegmentsError(e) ==
    /\ e.type = "ParseError"
    /\ e.Message # <<>> /\ Head(e.Message) = "too many segments in "
    /\ e.Expected = <<>>

\* C6: parseSegmentedIdents never returns more than 3 segments: whenever the
\* dotted identifier has 4 or more segments, in a source or in a variable
\* reference, the parse fails with a "too many segments" message error and
\* nothing is returned.
C6_AtMostThreeSegments ==
    /\ Len(identsRead) <= 3
    /\ pc = "done" =>
          \A shape \in SegShapes :
              (WellFormed(shape) /\ Len(shape) >= 4) =>
                  \A e \in SourceEndings \cup VarRefEndings :
                      input = Dotted(shape) \o e =>
                          (result = Nil /\ IsTooManySegmentsError(err))

\* A source of four segments has failed with the error.
C6_Witness ==
    /\ entry = "parseSource" /\ pc = "done"
    /\ input = Dotted(<<TRUE, TRUE, TRUE, TRUE>>)
    /\ result = Nil
    /\ IsTooManySegmentsError(err)

----------------------------------------------------------------------------
(* parseUnaryExpr: bound parameters.                                        *)

BoundParamLits == {"$host", "$n", "$"}

\* The Go type of a tagged value.
GoTypeOf(v) == CHOOSE ty \in DOMAIN v : TRUE

\* The kind of literal node each bindable type selects.
LiteralKind(ty) ==
    CASE ty = "float64" -> "NumberLiteral"
      [] ty = "int64" -> "IntegerLiteral"
      [] ty = "string" -> "StringLiteral"
      [] ty = "bool" -> "BooleanLiteral"
      [] OTHER -> "none"

\* What reading the bound parameter lit gives: the node v or the error e.
BoundParamOutcome(lit, v, e) ==
    IF TrimDollar(lit) = ""
    THEN IsNil(v) /\ ~IsNil(e) /\ ErrorText(e) = <<"empty bound parameter">>
    ELSE IF TrimDollar(lit) \notin DOMAIN params
    THEN IsNil(v) /\ ~IsNil(e) /\ ErrorText(e) = <<"missing parameter: ", TrimDollar(lit)>>
    ELSE IF LiteralKind(GoTypeOf(params[TrimDollar(lit)])) = "none"
    THEN /\ IsNil(v) /\ ~IsNil(e)
         /\ ErrorText(e) = <<"unable to bind parameter with type ",
                             GoTypeOf(params[TrimDollar(lit)])>>
    ELSE /\ IsNil(e)
         /\ v.type = LiteralKind(GoTypeOf(params[TrimDollar(lit)]))
         /\ v.Val = params[TrimDollar(lit)]

\* C7: for a bound parameter $name an empty name is an error; a name absent
\* from the parameter map (also when no map was set) is a "missing parameter"
\* error; otherwise the type of the supplied value selects the node, float
\* NumberLiteral, integer IntegerLiteral, string StringLiteral, boolean
\* BooleanLiteral, with the supplied value; a value of another type is an
\* "unable to bind parameter" error.  Parsing never modifies the map.
C7_BoundParameters ==
    /\ [](\A lit \in BoundParamLits :
            (entry = "ParseExpr" /\ pc = "done"
                /\ input = <<Tok("BOUNDPARAM", lit)>>) =>
                    BoundParamOutcome(lit, result, err))
    /\ [](\A lit \in BoundParamLits :
            (entry = "ParseExpr" /\ pc = "done"
                /\ input = <<ID("x"), WS, KW("ADD"), WS, Tok("BOUNDPARAM", lit)>>) =>
                    IF IsNil(err)
                    THEN /\ result.type = "BinaryExpr"
                         /\ BoundParamOutcome(lit, result.RHS, Nil)
                    ELSE BoundParamOutcome(lit, result, err))
    /\ [][params' = params]_vars

\* $host has been bound to the string of the map.
C7_Witness ==
    /\ entry = "ParseExpr" /\ pc = "done"
    /\ input = <<Tok("BOUNDPARAM", "$host")>>
    /\ params = [host |-> GoString("server01")]
    /\ result = StringLiteral("server01")

----------------------------------------------------------------------------
(* ParseExpr: the operand of a regex operator.                              *)

\* Every BinaryExpr with a regex operator in n has a RegexLiteral as its
\* right child.
RECURSIVE RegexOperandsAreLiterals(_)
RegexOperandsAreLiterals(n) ==
    CASE n.type = "BinaryExpr" ->
           /\ IsRegexOp(n.Op) => n.RHS.type = "RegexLiteral"
           /\ RegexOperandsAreLiterals(n.LHS)
           /\ RegexOperandsAreLiterals(n.RHS)
      [] n.type = "ParenExpr" -> RegexOperandsAreLiterals(n.Expr)
      [] n.type = "Call" -> \A i \in 1..Len(n.Args) : RegexOperandsAreLiterals(n.Args[i])
      [] OTHER -> TRUE

\* The followers of a regex operator that do not start with a slash.
NoRegexFollowers == { f \in RegexFollowers : f = <<>> \/ FirstRune(Head(f)) # "/" }

\* C8: in every tree ParseExpr returns, the right child of a BinaryExpr with
\* operator =~ or !~ is a RegexLiteral, and when no regex literal follows the
\* operator the parse fails with a found/expected error whose expected set is
\* {"regex"}.
C8_RegexOperandIsLiteral ==
    (entry = "ParseExpr" /\ pc = "done") =>
        /\ IsNil(err) => RegexOperandsAreLiterals(result)
        /\ \A w1, w2 \in Spaces : \A op \in {"EQREGEX", "NEQREGEX"} :
              \A f \in NoRegexFollowers :
                  input = <<ID("a")>> \o w1 \o <<KW(op)>> \o w2 \o f =>
                      /\ result = Nil
                      /\ err.type = "ParseError"
                      /\ err.Expected = <<"regex">>

----------------------------------------------------------------------------
(* The errors the entry points return.                                      *)

PositionNumbers == {Itoa(n) : n \in 1..(Len(ItoaTab) - 1)}

\* The text ends with "at line L, char C" for numbers L and C from 1.
EndsWithPosition(text) ==
    /\ Len(text) >= 4
    /\ text[Len(text) - 3] = " at line "
    /\ text[Len(text) - 2] \in PositionNumbers
    /\ text[Len(text) - 1] = ", char "
    /\ text[Len(text)] \in PositionNumbers

\* C9: every error an entry point returns is a ParseError tied to a source
\* position, and its text ends with "at line L, char C" with 1-indexed
\* coordinates; this includes the missing-parameter, empty-bound-parameter
\* and unable-to-bind errors.
C9_EveryErrorIsParseError ==
    (pc = "done" /\ ~IsNil(err)) =>
        /\ err.type = "ParseError"
        /\ EndsWithPosition(ErrorText(err))

----------------------------------------------------------------------------
(* The tokens the parser pushes back.                                       *)
(* s.maxn is the largest number of tokens that were unscanned and not yet   *)
(* scanned again; every scan of an unscanned token takes one away, so it is *)
(* 2 or more exactly when unscan was called twice with no scan in between.  *)

\* The raw input has an identifier, or a regex text that Scan would read as
\* a slash and an identifier.
HasIdent(raw) ==
    \E i \in 1..Len(raw) : raw[i].tok = "IDENT" \/ raw[i].tok \in RawRegexKinds

\* The first operand of the raw input is an identifier that no left
\* parenthesis follows.
IdentFirst(raw) ==
    /\ Len(raw) >= 1
    /\ raw[1].tok = "IDENT"
    /\ Len(raw) >= 2 => raw[2].tok # "LPAREN"

----------------------------------------------------------------------------
(* ParseExpr: the shape of the tree after an insertion.                     *)

\* The operands of n from left to right: the subtrees that are no
\* BinaryExpr, each one whole.
RECURSIVE Operands(_)
Operands(n) ==
    IF n.type = "BinaryExpr" THEN Operands(n.LHS) \o Operands(n.RHS) ELSE <<n>>

\* The operator precedences rise strictly along the right spine of n.
RECURSIVE SpineIncreasing(_)
SpineIncreasing(n) ==
    (n.type = "BinaryExpr" /\ n.RHS.type = "BinaryExpr") =>
        /\ Precedence(n.Op) < Precedence(n.RHS.Op)
        /\ SpineIncreasing(n.RHS)

\* The node at the end of the right spine of n.
RECURSIVE SpineEnd(_)
SpineEnd(n) == IF n.type = "BinaryExpr" THEN SpineEnd(n.RHS) ELSE n

\* What parseUnaryExpr and parseRegex return as an operand.
OperandTypes ==
    {"VarRef", "StringLiteral", "NumberLiteral", "IntegerLiteral", "BooleanLiteral",
     "RegexLiteral", "Call", "ParenExpr"}

\* The names of the variable references of n from left to right, those
\* inside parentheses and call arguments included.
RECURSIVE VarNames(_)
VarNames(n) ==
    CASE n.type = "BinaryExpr" -> VarNames(n.LHS) \o VarNames(n.RHS)
      [] n.type = "ParenExpr" -> VarNames(n.Expr)
      [] n.type = "Call" -> Flatten([i \in 1..Len(n.Args) |-> VarNames(n.Args[i])])
      [] n.type = "VarRef" -> n.Val
      [] OTHER -> <<>>

\* The identifiers of the raw input that are no function names, in order.
RECURSIVE InputNames(_)
InputNames(raw) ==
    IF raw = <<>> THEN <<>>
    ELSE IF Head(raw).tok = "IDENT" /\ ~(Len(raw) >= 2 /\ raw[2].tok = "LPAREN")
    THEN <<Head(raw).lit>> \o InputNames(Tail(raw))
    ELSE InputNames(Tail(raw))

\* C12: after every insertion of the ParseExpr loop the operator precedences
\* rise strictly from the top along the right spine of the tree under the
\* synthetic root, and the spine ends in an operand that is no BinaryExpr
\* (the operand just parsed); the operands of the tree before the insertion,
\* a ParenExpr or Call among them, are in the tree after it whole and in
\* the same order, followed by the new operand; and the operands of a
\* returned tree stand in the order of the input.
C12_SpineAndOperandOrder ==
    /\ ~IsNil(ins) =>
          /\ SpineIncreasing(root)
          /\ SpineEnd(root) = ins.rhs
          /\ ins.rhs.type \in OperandTypes
          /\ Operands(root) = Operands(ins.before) \o <<ins.rhs>>
          /\ \A i \in 1..Len(Operands(root)) : Operands(root)[i].type \in OperandTypes
    /\ (entry = "ParseExpr" /\ pc = "done" /\ IsNil(err)) =>
          /\ input \in Chains =>
                Operands(result) =
                    [i \in 1..Len(ChainOperandTokens(input)) |->
                        OperandNode(ChainOperandTokens(input)[i])]
          /\ input \in Chains \cup GroupedChains => VarNames(result) = InputNames(input)

\* a + (b + c) * f(d): the insertion of * f(d) has gone below the + and has
\* left the group (b + c) whole, as the left child of the new node.
C12_Witness ==
    /\ ~IsNil(ins)
    /\ ins.op = "MUL" /\ ins.rhs.type = "Call"
    /\ ins.before.type = "BinaryExpr" /\ ins.before.Op = "ADD"
    /\ ins.before.RHS.type = "ParenExpr"
    /\ root.type = "BinaryExpr" /\ root.Op = "ADD"
    /\ root.RHS = BinaryExpr(ins.before.RHS, "MUL", ins.rhs)
    /\ Len(Operands(root)) = 3

====
